---- MODULE Spec2Model ----
(***************************************************************************)
(* Model of the minimax engine of src/minimax.go: the lazy variant         *)
(* (lines 176-385) and the eager variant (lines 1-174), each with its      *)
(* Make, minimax and Solve, driven by a family of small rules adapters.    *)
(***************************************************************************)
EXTENDS Integers, Sequences, FiniteSets, TLC

(***************************************************************************)
(* Bounds of the model.                                                    *)
(***************************************************************************)
\* number of non-terminal positions of a game
NumInternal == 3
\* largest number of successors the adapter returns for one position
MaxSucc == 2
\* number of positions Make is called with as the root (positions 1..NumRoots)
NumRoots == 2
\* nested Solve frames the Go stack holds before the runtime aborts (with a
\* pure adapter every further frame repeats the miss of the one before)
MaxStack == 2

(***************************************************************************)
(* Program constants.                                                      *)
(***************************************************************************)
\* const score (lazy variant)
score == 100
\* const SCORE (eager variant)
SCORE == 100
\* the nil pointer: no state, no node
Nil == 0

VARIABLES
    succ,      \* adapter: successors of each non-terminal position, in order
    deadUtil,  \* adapter: utility reported for a non-terminal position
    root,      \* the state Make was called with
    mm,        \* the engine returned by the lazy Make: [moveMap, isMax]
    em,        \* the engine returned by the eager Make: [moveMap, isMax]
    made,      \* history: what the two Make calls computed
    rebuilt,   \* history: the last rebuild done inside the last Solve call
    lastCall,  \* history: the last Solve call and what it returned
    crashed    \* the process died (stack overflow or nil dereference)

vars == <<succ, deadUtil, root, mm, em, made, rebuilt, lastCall, crashed>>

(***************************************************************************)
(* The rules adapter.  States are positions: 1..NumInternal are            *)
(* non-terminal, followed by three terminal positions (won, drawn, lost    *)
(* for the maximizing side).  The side to move is part of the position, as *)
(* in the tic-tac-toe states of the tests (XPlays): the maximizer moves at *)
(* odd positions, the minimizer at even ones, and every move changes the   *)
(* side.                                                                   *)
(***************************************************************************)
Internal == 1..NumInternal
WinLeaf == NumInternal + 1
DrawLeaf == NumInternal + 2
LossLeaf == NumInternal + 3
Leaves == {WinLeaf, DrawLeaf, LossLeaf}
States == Internal \cup Leaves

isTerminal(s) == s \in Leaves

utility(s) ==
    IF s = WinLeaf THEN 1
    ELSE IF s = LossLeaf THEN -1
    ELSE IF s = DrawLeaf THEN 0
    ELSE deadUtil

successors(s) == IF s \in Internal THEN succ[s] ELSE << >>

\* TRUE iff the maximizing side is to move at s
mover(s) == s % 2 = 1

Targets(p) == {q \in Internal : q > p /\ (q - p) % 2 = 1} \cup Leaves

IsInjective(q) == \A i, j \in DOMAIN q : i # j => q[i] # q[j]

SuccChoices(p) ==
    {q \in UNION {[1..n -> Targets(p)] : n \in 0..MaxSucc} : IsInjective(q)}

RECURSIVE Adapters(_)
Adapters(k) ==
    IF k = 0 THEN {<< >>}
    ELSE {Append(g, c) : g \in Adapters(k - 1), c \in SuccChoices(k)}

Range(q) == {q[i] : i \in DOMAIN q}

\* the element of a one-element set: {F(x) : x \in {e}} binds x to the value
\* of e, so that e is computed once
TheOne(S) == CHOOSE x \in S : TRUE

Max(a, b) == IF a > b THEN a ELSE b
Min(a, b) == IF a < b THEN a ELSE b

(***************************************************************************)
(* The move cache: a Go map[T]*T, here a function on the set of its keys.  *)
(***************************************************************************)
EmptyMap == << >>

\* m.moveMap[state]: nil when the key is absent
Lookup(mp, state) == IF state \in DOMAIN mp THEN mp[state] ELSE Nil

\* the write with key and value exchanged
PutSwapped(mp, k, v) ==
    [x \in DOMAIN mp \cup {v} |-> IF x = v THEN k ELSE mp[x]]

\* mp[k] = v
Put(mp, k, v) == [x \in DOMAIN mp \cup {k} |-> IF x = k THEN v ELSE mp[x]]

(***************************************************************************)
(* Lazy variant (package minimax, second half of src/minimax.go).          *)
(* A node is a record of the fields the evaluator reads; the children of a *)
(* node are the sequence expandNode builds, and a bestMove pointer is the  *)
(* index of the child it points to (Nil when unset).  Every node of a      *)
(* build is freshly allocated and handed to minimax once, by its parent.   *)
(***************************************************************************)
node(elem, depth, isMax) ==
    [val |-> 0, alpha |-> -score, beta |-> score, depth |-> depth,
     isMax |-> isMax, elem |-> elem, bestMove |-> Nil, expanded |-> FALSE]

\* the children expandNode appends to n.children
expandNode(n) ==
    LET successorStates == successors(n.elem)
    IN  [i \in 1..Len(successorStates) |->
            node(successorStates[i], n.depth + 1, ~n.isMax)]

\* the switch on utility at a terminal node
TerminalScore(u, depth) ==
    IF u > 0 THEN score - depth
    ELSE IF u < 0 THEN depth - score
    ELSE 0

\* eval > maxEval
ImprovesMax(eval, maxEval) == eval > maxEval

\* the comparison of the minimizing loop, turned around
ImprovesMinFlipped(eval, minEval) == eval > minEval

\* eval < minEval
ImprovesMin(eval, minEval) == eval < minEval

\* n.beta <= n.alpha
Cutoff(alpha, beta) == beta <= alpha

\* the value stored by mp[*n.elem] = n.bestMove.elem
BestElem(children, bestMove) == children[bestMove].elem

\* what one minimax call leaves behind: the node's val and bestMove, the
\* cache, the nodes visited so far (each with the state of its best child),
\* and whether it died dereferencing a nil bestMove
Visit(val, best, mp, log, panic) ==
    [val |-> val, bestMove |-> best, mp |-> mp, log |-> log, panic |-> panic]

RECURSIVE minimax(_, _, _)
RECURSIVE maxLoop(_, _, _, _, _, _, _, _)
RECURSIVE minLoop(_, _, _, _, _, _, _, _)

\* the body of the maximizing loop after minimax(child) returned c
maxStep(n, children, i, alpha, maxEval, bestMove, c) ==
    LET eval == c.val
        newMax == IF ImprovesMax(eval, maxEval) THEN eval ELSE maxEval
        newBest == IF ImprovesMax(eval, maxEval) THEN i ELSE bestMove
        newAlpha == Max(alpha, newMax)
    IN  IF c.panic THEN c
        ELSE IF Cutoff(newAlpha, n.beta)
             THEN Visit(newMax, newBest, c.mp, c.log, FALSE)
             ELSE maxLoop(n, children, i + 1, newAlpha, newMax, newBest,
                          c.mp, c.log)

\* for _, child := range n.children, maximizing node, from child i on
maxLoop(n, children, i, alpha, maxEval, bestMove, mp, log) ==
    IF i > Len(children) THEN Visit(maxEval, bestMove, mp, log, FALSE)
    ELSE
        LET child == [children[i] EXCEPT !.alpha = alpha, !.beta = n.beta]
        IN  TheOne({maxStep(n, children, i, alpha, maxEval, bestMove, c) :
                        c \in {minimax(child, mp, log)}})

\* the body of the minimizing loop after minimax(child) returned c
minStep(n, children, i, beta, minEval, bestMove, c) ==
    LET eval == c.val
        newMin == IF ImprovesMin(eval, minEval) THEN eval ELSE minEval
        newBest == IF ImprovesMin(eval, minEval) THEN i ELSE bestMove
        newBeta == Min(beta, newMin)
    IN  IF c.panic THEN c
        ELSE IF Cutoff(n.alpha, newBeta)
             THEN Visit(newMin, newBest, c.mp, c.log, FALSE)
             ELSE minLoop(n, children, i + 1, newBeta, newMin, newBest,
                          c.mp, c.log)

\* for _, child := range n.children, minimizing node, from child i on
minLoop(n, children, i, beta, minEval, bestMove, mp, log) ==
    IF i > Len(children) THEN Visit(minEval, bestMove, mp, log, FALSE)
    ELSE
        LET child == [children[i] EXCEPT !.alpha = n.alpha, !.beta = beta]
        IN  TheOne({minStep(n, children, i, beta, minEval, bestMove, c) :
                        c \in {minimax(child, mp, log)}})

\* the end of minimax at a node with children, r being what the loop left:
\* n.bestMove = bestMove; mp[*n.elem] = n.bestMove.elem
storeBestMove(n, children, r) ==
    IF r.panic THEN r
    ELSE IF r.bestMove = Nil
    THEN Visit(r.val, Nil, r.mp,
               Append(r.log, [elem |-> n.elem, best |-> Nil]), TRUE)
    ELSE Visit(r.val, r.bestMove,
               Put(r.mp, n.elem, BestElem(children, r.bestMove)),
               Append(r.log, [elem |-> n.elem,
                              best |-> BestElem(children, r.bestMove)]),
               FALSE)

minimax(n, mp, log) ==
    IF n.bestMove # Nil THEN Visit(n.val, n.bestMove, mp, log, FALSE)
    ELSE IF isTerminal(n.elem)
    THEN Visit(TerminalScore(utility(n.elem), n.depth), Nil, mp,
               Append(log, [elem |-> n.elem, best |-> Nil]), FALSE)
    ELSE
        LET children == expandNode(n)
        IN  IF Len(children) = 0
            THEN Visit(utility(n.elem), Nil, mp,
                       Append(log, [elem |-> n.elem, best |-> Nil]), FALSE)
            ELSE IF n.isMax
            THEN TheOne({storeBestMove(n, children, r) :
                    r \in {maxLoop(n, children, 1, n.alpha, -score, Nil,
                                   mp, log)}})
            ELSE TheOne({storeBestMove(n, children, r) :
                    r \in {minLoop(n, children, 1, n.beta, score, Nil,
                                   mp, log)}})

\* Make: the root node, an empty map, one minimax call.  The result holds
\* the engine's fields (moveMap, isMax) and, as history, the root's value
\* and the nodes visited.
Make(state, isMax) ==
    TheOne({[moveMap |-> r.mp, isMax |-> isMax, val |-> r.val, log |-> r.log,
             panic |-> r.panic] :
                r \in {minimax(node(state, 0, isMax), EmptyMap, << >>)}})

\* what a Solve call did: the pointer returned (Nil: no move), the number of
\* rebuilds, how it ended, and the last rebuild (NoBuild when none)
NoBuild == [moveMap |-> EmptyMap, isMax |-> FALSE, val |-> 0, log |-> << >>,
            panic |-> FALSE]

Returned(ret, build) ==
    [ret |-> ret, rebuilds |-> 0, outcome |-> "returned", build |-> build]

RECURSIVE Solve(_, _, _, _)

\* the miss branch of Solve, newMM being what Make returned
retry(m, state, frames, newMM) ==
    IF newMM.panic
    THEN [ret |-> Nil, rebuilds |-> 1, outcome |-> "panic", build |-> newMM]
    ELSE IF frames >= MaxStack
    THEN [ret |-> Nil, rebuilds |-> 1, outcome |-> "stack overflow",
          build |-> newMM]
    ELSE TheOne({[r EXCEPT !.rebuilds = @ + 1] :
            r \in {Solve([m EXCEPT !.moveMap = newMM.moveMap], state,
                         frames + 1, newMM)}})

\* Solve on the engine value m (the receiver is a copy), in frame `frames`
Solve(m, state, frames, build) ==
    IF isTerminal(state) THEN Returned(Nil, build)
    ELSE
        LET bestMove == Lookup(m.moveMap, state)
        IN  IF bestMove # Nil THEN Returned(bestMove, build)
            ELSE TheOne({retry(m, state, frames, newMM) :
                            newMM \in {Make(state, m.isMax)}})

(***************************************************************************)
(* Eager variant (package minimax, first half of src/minimax.go).          *)
(* makeNode builds the whole tree before the evaluation; a node carries    *)
(* its children.                                                           *)
(***************************************************************************)
RECURSIVE makeNode(_, _, _)
makeNode(state, depth, isMax) ==
    LET succs == successors(state)
        children == [i \in 1..Len(succs) |->
                        makeNode(succs[i], depth + 1, ~isMax)]
    IN  [val |-> 0, alpha |-> -SCORE, beta |-> SCORE, depth |-> depth,
         isMax |-> isMax, elem |-> state, children |-> children,
         bestMove |-> Nil]

\* the switch on utility at a terminal or childless node
TerminalScoreEager(u, depth) ==
    IF u > 0 THEN SCORE - depth
    ELSE IF u < 0 THEN depth - SCORE
    ELSE 0

VisitEager(val, best, mp, panic) ==
    [val |-> val, bestMove |-> best, mp |-> mp, panic |-> panic]

RECURSIVE minimaxEager(_, _)
RECURSIVE maxLoopEager(_, _, _, _, _, _)
RECURSIVE minLoopEager(_, _, _, _, _, _)

\* the body of the maximizing loop after minimax(child) returned c
maxStepEager(n, i, alpha, max_eval, bestMove, c) ==
    LET eval == c.val
        newMax == IF eval > max_eval THEN eval ELSE max_eval
        newBest == IF eval > max_eval THEN i ELSE bestMove
        newAlpha == Max(alpha, newMax)
    IN  IF c.panic THEN c
        ELSE IF n.beta <= newAlpha
             THEN VisitEager(newMax, newBest, c.mp, FALSE)
             ELSE maxLoopEager(n, i + 1, newAlpha, newMax, newBest, c.mp)

\* for _, child := range n.children, maximizing node, from child i on
maxLoopEager(n, i, alpha, max_eval, bestMove, mp) ==
    IF i > Len(n.children) THEN VisitEager(max_eval, bestMove, mp, FALSE)
    ELSE
        LET child == [n.children[i] EXCEPT !.alpha = alpha, !.beta = n.beta]
        IN  TheOne({maxStepEager(n, i, alpha, max_eval, bestMove, c) :
                        c \in {minimaxEager(child, mp)}})

\* the body of the minimizing loop after minimax(child) returned c
minStepEager(n, i, beta, min_eval, bestMove, c) ==
    LET eval == c.val
        newMin == IF eval < min_eval THEN eval ELSE min_eval
        newBest == IF eval < min_eval THEN i ELSE bestMove
        newBeta == Min(beta, newMin)
    IN  IF c.panic THEN c
        ELSE IF newBeta <= n.alpha
             THEN VisitEager(newMin, newBest, c.mp, FALSE)
             ELSE minLoopEager(n, i + 1, newBeta, newMin, newBest, c.mp)

\* for _, child := range n.children, minimizing node, from child i on
minLoopEager(n, i, beta, min_eval, bestMove, mp) ==
    IF i > Len(n.children) THEN VisitEager(min_eval, bestMove, mp, FALSE)
    ELSE
        LET child == [n.children[i] EXCEPT !.alpha = n.alpha, !.beta = beta]
        IN  TheOne({minStepEager(n, i, beta, min_eval, bestMove, c) :
                        c \in {minimaxEager(child, mp)}})

\* n.bestMove = bestMove; mp[*n.elem] = n.bestMove.elem
storeBestMoveEager(n, r) ==
    IF r.panic THEN r
    ELSE IF r.bestMove = Nil THEN VisitEager(r.val, Nil, r.mp, TRUE)
    ELSE VisitEager(r.val, r.bestMove,
                    Put(r.mp, n.elem, n.children[r.bestMove].elem), FALSE)

\* the evaluation of n after n.alpha = -SCORE; n.beta = SCORE
evalEager(n, mp) ==
    IF n.bestMove # Nil THEN VisitEager(n.val, n.bestMove, mp, FALSE)
    ELSE IF isTerminal(n.elem) \/ Len(n.children) = 0
    THEN VisitEager(TerminalScoreEager(utility(n.elem), n.depth), Nil, mp,
                    FALSE)
    ELSE IF n.isMax
    THEN TheOne({storeBestMoveEager(n, r) :
            r \in {maxLoopEager(n, 1, n.alpha, -SCORE, Nil, mp)}})
    ELSE TheOne({storeBestMoveEager(n, r) :
            r \in {minLoopEager(n, 1, n.beta, SCORE, Nil, mp)}})

\* every call starts by resetting the node's window
minimaxEager(n, mp) ==
    evalEager([n EXCEPT !.alpha = -SCORE, !.beta = SCORE], mp)

MakeEager(state, isMax) ==
    TheOne({[moveMap |-> r.mp, isMax |-> isMax, val |-> r.val,
             log |-> << >>, panic |-> r.panic] :
                r \in {minimaxEager(makeNode(state, 0, isMax), EmptyMap)}})

RECURSIVE SolveEager(_, _, _, _)

\* after the miss of the eager Solve, newMM being what Make returned
retryEager(m, state, frames, newMM) ==
    IF newMM.panic
    THEN [ret |-> Nil, rebuilds |-> 1, outcome |-> "panic", build |-> newMM]
    ELSE IF frames >= MaxStack
    THEN [ret |-> Nil, rebuilds |-> 1, outcome |-> "stack overflow",
          build |-> newMM]
    ELSE TheOne({[r EXCEPT !.rebuilds = @ + 1] :
            r \in {SolveEager([m EXCEPT !.moveMap = newMM.moveMap], state,
                              frames + 1, newMM)}})

\* the eager Solve: lookup, and on a miss Make and Solve again
SolveEager(m, state, frames, build) ==
    LET bestMove == Lookup(m.moveMap, state)
    IN  IF bestMove # Nil THEN Returned(bestMove, build)
        ELSE TheOne({retryEager(m, state, frames, newMM) :
                        newMM \in {MakeEager(state, m.isMax)}})

(***************************************************************************)
(* The program: an adapter and a root are chosen, both variants' Make      *)
(* build an engine from them, and the caller then calls Solve on either    *)
(* engine with any state, any number of times.                             *)
(***************************************************************************)
Roots == {r \in Internal : r <= NumRoots}

Engine(made0) == [moveMap |-> made0.moveMap, isMax |-> made0.isMax]

NoCall ==
    [variant |-> "none", state |-> Nil, ret |-> Nil, rebuilds |-> 0,
     outcome |-> "none", repeat |-> FALSE, prevRet |-> Nil]

Init ==
    /\ succ \in Adapters(NumInternal)
    /\ deadUtil \in {-1, 0, 1}
    /\ root \in Roots
    /\ \E lz \in {Make(root, mover(root))},
          eg \in {MakeEager(root, mover(root))} :
           /\ mm = Engine(lz)
           /\ em = Engine(eg)
           /\ made = [val |-> lz.val, log |-> lz.log, panic |-> lz.panic,
                       eagerVal |-> eg.val]
           /\ crashed = (lz.panic \/ eg.panic)
    /\ rebuilt = NoBuild
    /\ lastCall = NoCall

\* the caller's record of a call: repeat says that the call before it was
\* the same call (same variant, same state), prevRet what that one returned
Call(variant, state, r) ==
    LET rep == lastCall.variant = variant /\ lastCall.state = state
    IN  [variant |-> variant, state |-> state, ret |-> r.ret,
         rebuilds |-> r.rebuilds, outcome |-> r.outcome, repeat |-> rep,
         prevRet |-> IF rep THEN lastCall.ret ELSE Nil]

\* mm.Solve(state) on the lazy engine.  The receiver is a value: the
\* assignment m.moveMap = newMM.moveMap changes the callee's copy only.
CallSolve(state) ==
    /\ ~crashed
    /\ \E r \in {Solve(mm, state, 1, NoBuild)} :
           /\ lastCall' = Call("lazy", state, r)
           /\ rebuilt' = r.build
           /\ crashed' = (r.outcome # "returned")
    /\ UNCHANGED <<succ, deadUtil, root, mm, em, made>>

\* mm.Solve(state) on the eager engine
CallSolveEager(state) ==
    /\ ~crashed
    /\ \E r \in {SolveEager(em, state, 1, NoBuild)} :
           /\ lastCall' = Call("eager", state, r)
           /\ rebuilt' = r.build
           /\ crashed' = (r.outcome # "returned")
    /\ UNCHANGED <<succ, deadUtil, root, mm, em, made>>

Next ==
    \/ \E state \in States : CallSolve(state)
    \/ \E state \in States : CallSolveEager(state)

Spec == Init /\ [][Next]_vars

(***************************************************************************)
(* Reference definitions used to state the claims.                         *)
(***************************************************************************)
SetMax(S) == CHOOSE x \in S : \A y \in S : y <= x
SetMin(S) == CHOOSE x \in S : \A y \in S : x <= y

\* the exhaustive (unpruned) minimax value of state s standing at `depth`,
\* the side to move read off the state, under the evaluator's scoring
RECURSIVE FullValue(_, _)
FullValue(s, depth) ==
    IF isTerminal(s) THEN TerminalScore(utility(s), depth)
    ELSE IF successors(s) = << >> THEN utility(s)
    ELSE LET vals == {FullValue(successors(s)[i], depth + 1) :
                        i \in DOMAIN successors(s)}
         IN  IF mover(s) THEN SetMax(vals) ELSE SetMin(vals)

\* the states reachable from s, s included
RECURSIVE Reach(_)
Reach(s) == {s} \cup UNION {Reach(c) : c \in Range(successors(s))}

DeadEnd(s) == ~isTerminal(s) /\ successors(s) = << >>

\* one map holds every entry of the other
Includes(big, small) ==
    \A k \in DOMAIN small : k \in DOMAIN big /\ big[k] = small[k]

LazyReturned == lastCall.variant = "lazy" /\ lastCall.outcome = "returned"

(***************************************************************************)
(* C1.  Optimality: whenever the lazy Solve returns a move for a state,    *)
(* whether from the cache or after a rebuild, the move achieves the        *)
(* exhaustive minimax value of that state for the side to move there.      *)
(* Stated as the claim states it; the code violates it.                    *)
(***************************************************************************)
SolveIsOptimal ==
    (LazyReturned /\ lastCall.ret # Nil)
        => FullValue(lastCall.ret, 1) = FullValue(lastCall.state, 0)

(***************************************************************************)
(* C2.  For every terminal state, Solve (of either variant) returns nil,   *)
(* and does so without rebuilding or recursing.  Stated as the claim       *)
(* states it; the eager Solve violates it.                                 *)
(***************************************************************************)
TerminalSolveReturnsNil ==
    (lastCall.variant # "none" /\ isTerminal(lastCall.state))
        => /\ lastCall.outcome = "returned"
           /\ lastCall.ret = Nil
           /\ lastCall.rebuilds = 0

(***************************************************************************)
(* C3 (as stated).  For every non-terminal state, Solve returns an element *)
(* of Successors(state).                                                   *)
(***************************************************************************)
SolveReturnsSuccessor ==
    (lastCall.variant # "none" /\ ~isTerminal(lastCall.state))
        => /\ lastCall.outcome = "returned"
           /\ lastCall.ret \in Range(successors(lastCall.state))

(***************************************************************************)
(* C3 (amended).  For every non-terminal state that has at least one       *)
(* successor, Solve (of either variant) returns an element of              *)
(* Successors(state), on a cache hit and after a rebuild alike; so a move  *)
(* fed back into Solve is a legal position of the game.                    *)
(***************************************************************************)
SolveReturnsSuccessorIfAny ==
    (/\ lastCall.variant # "none"
     /\ ~isTerminal(lastCall.state)
     /\ successors(lastCall.state) # << >>)
        => /\ lastCall.outcome = "returned"
           /\ lastCall.ret \in Range(successors(lastCall.state))

\* C3: a miss, one rebuild, and the answer is the second of the state's two
\* successors, itself a non-terminal position
SolveReturnsSuccessorWitness ==
    /\ LazyReturned
    /\ lastCall.rebuilds = 1
    /\ Len(successors(lastCall.state)) = 2
    /\ lastCall.ret = successors(lastCall.state)[2]
    /\ lastCall.ret \in Internal

(***************************************************************************)
(* C4.  Solve terminates for every state, after at most one rebuild, also  *)
(* for a non-terminal state without successors.  Stated as the claim       *)
(* states it; the code violates it.                                        *)
(***************************************************************************)
SolveTerminatesAfterOneRebuild ==
    (lastCall.variant = "lazy")
        => lastCall.outcome = "returned" /\ lastCall.rebuilds <= 1

(***************************************************************************)
(* C5.  Idempotence: the second of two consecutive Solve calls on one      *)
(* state returns the same move as the first and performs no rebuild.       *)
(* Stated as the claim states it; the code violates it.                    *)
(***************************************************************************)
SecondSolveDoesNotRebuild ==
    (LazyReturned /\ lastCall.repeat)
        => lastCall.ret = lastCall.prevRet /\ lastCall.rebuilds = 0

(***************************************************************************)
(* C6.  Depth preference, at a state where the maximizer moves and from    *)
(* which every line ends in a terminal state: if several continuations win *)
(* the move returned wins in the fewest plies, and if every continuation   *)
(* loses the move returned loses in the most plies.  Stated as the claim   *)
(* states it; the code violates it.                                        *)
(***************************************************************************)
Continuations(s) == Range(successors(s))
Wins(c) == FullValue(c, 1) > 0
Loses(c) == FullValue(c, 1) < 0
PliesToWin(c) == score - FullValue(c, 1)
PliesToLoss(c) == score + FullValue(c, 1)

SolvePrefersDepth ==
    (/\ LazyReturned
     /\ lastCall.ret # Nil
     /\ mover(lastCall.state)
     /\ \A s \in Reach(lastCall.state) : ~DeadEnd(s))
        => LET cs == Continuations(lastCall.state)
               winning == {c \in cs : Wins(c)}
           IN  /\ Cardinality(winning) >= 2
                    => /\ lastCall.ret \in winning
                       /\ \A c \in winning :
                            PliesToWin(lastCall.ret) <= PliesToWin(c)
               /\ (\A c \in cs : Loses(c))
                    => \A c \in cs :
                            PliesToLoss(lastCall.ret) >= PliesToLoss(c)

(***************************************************************************)
(* C7.  The eager and the lazy build of one root give the root the same    *)
(* value and record the same best successor for it.  Stated as the claim   *)
(* states it; the code violates it.                                        *)
(***************************************************************************)
EagerEqualsLazy ==
    /\ made.eagerVal = made.val
    /\ Lookup(em.moveMap, root) = Lookup(mm.moveMap, root)

(***************************************************************************)
(* C8.  The cache grows monotonically: after a Solve that rebuilt, the     *)
(* engine's cache (the caller's engine value, or the receiver copy the     *)
(* retry reads) holds every entry it held before the call, unchanged, and  *)
(* every entry of the rebuild.  Stated as the claim states it; the code    *)
(* violates it.                                                            *)
(***************************************************************************)
CacheGrowsMonotonically ==
    (LazyReturned /\ lastCall.rebuilds > 0)
        => \E cache \in {mm.moveMap, rebuilt.moveMap} :
                /\ Includes(cache, mm.moveMap)
                /\ Includes(cache, rebuilt.moveMap)

(***************************************************************************)
(* C9.  After a build (by Make, or by a rebuild inside Solve) every node   *)
(* the evaluator visited has a best child iff its state is non-terminal    *)
(* and has a successor; the best child is one of the node's children; the  *)
(* build never dereferences a nil best child; and the keys of the cache    *)
(* are exactly the states of the nodes that have a best child.             *)
(***************************************************************************)
BuildIsWellFormed(log, moveMap) ==
    /\ \A i \in DOMAIN log :
        /\ log[i].best # Nil
              <=> (~isTerminal(log[i].elem) /\ successors(log[i].elem) # << >>)
        /\ log[i].best # Nil => log[i].best \in Range(successors(log[i].elem))
    /\ DOMAIN moveMap = {log[i].elem : i \in {j \in DOMAIN log : log[j].best # Nil}}
    /\ \A i \in DOMAIN log :
        log[i].best # Nil => moveMap[log[i].elem] \in Range(successors(log[i].elem))

BestChildDefinedIffChildren ==
    /\ ~made.panic
    /\ BuildIsWellFormed(made.log, mm.moveMap)
    /\ (lastCall.variant = "lazy" /\ lastCall.rebuilds > 0)
            => /\ ~rebuilt.panic
               /\ BuildIsWellFormed(rebuilt.log, rebuilt.moveMap)

\* C9: a build that visited terminal nodes and nodes with children, cached
\* two states and pruned past a reachable non-terminal state
BestChildDefinedIffChildrenWitness ==
    /\ Cardinality(DOMAIN mm.moveMap) >= 2
    /\ \E i \in DOMAIN made.log : made.log[i].best = Nil
    /\ \E s \in Reach(root) :
            /\ ~isTerminal(s)
            /\ successors(s) # << >>
            /\ s \notin DOMAIN mm.moveMap

(***************************************************************************)
(* C10.  History independence: the move Solve answers from the cache of    *)
(* the engine's build is the move a fresh rebuild rooted at the queried    *)
(* state answers.  Stated as the claim states it; the code violates it.    *)
(***************************************************************************)
CachedMoveEqualsRebuiltMove ==
    (/\ LazyReturned
     /\ lastCall.ret # Nil
     /\ lastCall.rebuilds = 0)
        => lastCall.ret
                = Lookup(Make(lastCall.state, mm.isMax).moveMap, lastCall.state)

====
